---------------------------- MODULE Spec2Model ----------------------------
(***************************************************************************)
(* Route-planning engine of the pathfinder repository: occupancy-grid      *)
(* tests, A* search, the point-to-point router, the tour solvers and the   *)
(* multi-waypoint path builder, and the event handlers of the map editor   *)
(* that calls them.                                                        *)
(*                                                                         *)
(* Conventions                                                             *)
(*  - A cell is <<y, x>> (row, column), as in the source.                  *)
(*  - An occupancy grid (numpy bool array) is a record                     *)
(*      [H |-> rows, W |-> columns, cells |-> set of True (obstacle) cells]*)
(*  - A cost is <<a, b>>, standing for the real number a + b*sqrt(2): the  *)
(*    source adds 1 for an orthogonal step and sqrt(2) for a diagonal one. *)
(*    Costs are compared exactly.                                          *)
(*  - Python's None, where a path is expected, is the record None below;   *)
(*    a returned path p is Some(p).  Sequences are 1-based here; an index  *)
(*    the source returns (return_start_index) keeps its 0-based value.     *)
(***************************************************************************)
EXTENDS Integers, Sequences, FiniteSets, TLC

\* -------------------------------------------------------------- bounds --
\* Shape of the grids the A* / router state machine is run on.
GridH == 3
GridW == 4
\* Largest number of obstacle cells in such a grid.
MaxObstacles == 3
\* The path builder is called on PlanH x PlanW grids with at most PlanObstacles
\* obstacle cells and at most MaxWaypoints waypoints ...
PlanH == 2
PlanW == 3
PlanObstacles == 2
MaxWaypoints == 3
\* ... and on PlanH x WideW grids with at most WideObstacles obstacle cells and
\* at most WideWaypoints waypoints.
WideW == 7
WideObstacles == 2
WideWaypoints == 2
\* The tour solvers are called on matrices of 2 .. MaxCities points.
MaxCities == 4
\* inflate is called with radii counted in half cells: a base radius in
\* -MaxRadius .. MaxRadius and an extra radius in -MaxExtra .. MaxExtra.
MaxRadius == 4
MaxExtra == 2
\* shortcut is called with max_iterations in 0 .. MaxIterations.
MaxIterations == 3
\* resample is called on paths of up to MaxPathLen points with coordinates in
\* 0 .. MaxCoord and a step_size in 1 .. MaxStep, lengths counted in one unit.
MaxPathLen == 3
MaxCoord == 10
MaxStep == 4
\* The two visiting orders are compared on PlanH x PlanW grids with up to
\* OrderObstacles obstacles and lists of up to OrderWaypoints waypoints.
OrderObstacles == 1
OrderWaypoints == 4

\* ------------------------------------------------------------- helpers --
Abs(n) == IF n < 0 THEN -n ELSE n
Min2(a, b) == IF a <= b THEN a ELSE b
Max2(a, b) == IF a >= b THEN a ELSE b

None == [found |-> FALSE, path |-> <<>>]
Some(p) == [found |-> TRUE, path |-> p]

\* parent of the start node (Python None)
NoParent == <<>>

Cells(h, w) == (0 .. h - 1) \X (0 .. w - 1)

\* All subsets of S with at most k elements.
RECURSIVE SubsetsUpTo(_, _)
SubsetsUpTo(S, k) ==
  IF k = 0 \/ S = {} THEN {{}}
  ELSE LET c == CHOOSE e \in S : TRUE
           rest == SubsetsUpTo(S \ {c}, k)
           less == SubsetsUpTo(S \ {c}, k - 1)
       IN rest \cup {s \cup {c} : s \in less}

Grids(h, w, k) == {[H |-> h, W |-> w, cells |-> s] : s \in SubsetsUpTo(Cells(h, w), k)}

\* ---------------------------------------------------------------- costs --
ZeroCost == <<0, 0>>
CostAdd(c, d) == <<c[1] + d[1], c[2] + d[2]>>

\* sign of a + b*sqrt(2) for integers a, b
Sgn(a, b) ==
  IF a >= 0 /\ b >= 0 THEN (IF a = 0 /\ b = 0 THEN 0 ELSE 1)
  ELSE IF a <= 0 /\ b <= 0 THEN -1
  ELSE IF a > 0 THEN (IF a * a > 2 * b * b THEN 1 ELSE -1)
  ELSE (IF 2 * b * b > a * a THEN 1 ELSE -1)

CostCmp(c, d) == Sgn(c[1] - d[1], c[2] - d[2])
CostLess(c, d) == CostCmp(c, d) < 0
CostLeq(c, d) == CostCmp(c, d) <= 0

\* -------------------------------------------------- grid_utils.py tests --
is_valid_position(y, x, height, width) ==
  0 <= y /\ y < height /\ 0 <= x /\ x < width

is_point_free(occ, y, x) ==
  IF ~is_valid_position(y, x, occ.H, occ.W) THEN FALSE
  ELSE <<y, x>> \notin occ.cells

\* ceil(sqrt(m)) for m >= 0
CeilSqrt(m) == CHOOSE r \in 0 .. m : r * r >= m /\ (r = 0 \/ (r - 1) * (r - 1) < m)

\* The float evaluation of c0*(1-t) + c1*t at t = k*(1/(n-1)) misses the exact
\* half-way value in these cases <<c0, c1, k, n>> (coordinates 0..7): it lands
\* just above it (FloatAboveHalf) or just below it (FloatBelowHalf), so that
\* round() does not see a tie.
FloatAboveHalf ==
  { <<3, 0, 5, 7>>, <<3, 0, 10, 13>>, <<3, 0, 15, 19>>, <<6, 0, 7, 13>>,
    <<6, 0, 11, 13>>, <<7, 0, 9, 15>>, <<7, 0, 13, 15>>, <<7, 1, 5, 13>>,
    <<7, 4, 1, 7>>, <<7, 4, 2, 13>>, <<7, 4, 3, 19>> }
FloatBelowHalf == { <<0, 6, 7, 13>>, <<5, 0, 7, 11>> }

\* int(round(c0*(1-t) + c1*t)) for t the k-th of n values of linspace(0, 1, n):
\* Python's round() rounds an exact half to the even neighbour.
LerpRound(c0, c1, k, n) ==
  LET num == c0 * (n - 1 - k) + c1 * k
      den == n - 1
      fl == num \div den
      r2 == 2 * (num % den)
  IN IF r2 > den THEN fl + 1
     ELSE IF r2 < den THEN fl
     ELSE IF <<c0, c1, k, n>> \in FloatAboveHalf THEN fl + 1
     ELSE IF <<c0, c1, k, n>> \in FloatBelowHalf THEN fl
     ELSE IF fl % 2 = 0 THEN fl ELSE fl + 1

\* number of samples: int(max(2, ceil(2 * hypot(dy, dx))))
NumSteps(p0, p1) ==
  LET dy == p1[1] - p0[1]
      dx == p1[2] - p0[2]
  IN Max2(2, CeilSqrt(4 * (dy * dy + dx * dx)))

\* the cells line_free samples, in order
SampleCells(p0, p1) ==
  LET n == NumSteps(p0, p1)
  IN [i \in 1 .. n |-> <<LerpRound(p0[1], p1[1], i - 1, n),
                         LerpRound(p0[2], p1[2], i - 1, n)>>]

line_free(occ, start_point, end_point) ==
  IF start_point = end_point THEN TRUE
  ELSE LET s == SampleCells(start_point, end_point)
       IN \A i \in 1 .. Len(s) : is_point_free(occ, s[i][1], s[i][2])


\* disk_offsets for a radius of `radius` half cells: int(math.ceil(radius/2))
\* bounds the offsets, and an offset is kept when dx*dx + dy*dy <= radius^2/4.
\* A negative radius has a positive square; below -1 cell the range is empty.
disk_offsets(radius) ==
  LET max_offset == (radius + 1) \div 2
  IN { d \in (-max_offset .. max_offset) \X (-max_offset .. max_offset) :
         4 * (d[2] * d[2] + d[1] * d[1]) <= radius * radius }

\* the obstacles stamped around the obstacles of occ start from no obstacle
inflate_FromEmpty(occ, base_radius, extra_radius) ==
  LET offsets == disk_offsets(base_radius + extra_radius)
  IN [occ EXCEPT !.cells =
        { c \in Cells(occ.H, occ.W) : \E o \in occ.cells : \E d \in offsets :
            c = <<o[1] + d[1], o[2] + d[2]>> }]

\* inflate: a copy of occ with every valid cell at an offset of the disk from
\* an obstacle of occ made an obstacle (radii in half cells)
inflate(occ, base_radius, extra_radius) ==
  LET total_radius == base_radius + extra_radius
      offsets == disk_offsets(total_radius)
      stamped == { <<o[1] + d[1], o[2] + d[2]>> : o \in occ.cells, d \in offsets }
  IN [occ EXCEPT !.cells = occ.cells \cup
        { c \in stamped : is_valid_position(c[1], c[2], occ.H, occ.W) }]

\* the two slices joined whether or not the line between them is free
try_shortcut_NoLineTest(occ, points, start_idx, end_idx) ==
  SubSeq(points, 1, start_idx + 1) \o SubSeq(points, end_idx + 1, Len(points))

\* try_shortcut: points is 1-based here, start_idx and end_idx are the
\* source's 0-based indices; points[:start_idx + 1] + points[end_idx:]
try_shortcut(occ, points, start_idx, end_idx) ==
  IF line_free(occ, points[start_idx + 1], points[end_idx + 1])
  THEN SubSeq(points, 1, start_idx + 1) \o SubSeq(points, end_idx + 1, Len(points))
  ELSE points

\* calculate_segment_points on a segment along one axis, lengths in whole
\* units and step_size > 0: the points at step_size, 2*step_size, ... from
\* start_point while they are within the segment, and the length left over
\* after the last of them.  A segment of length 0 gives no point and 0.
calculate_segment_points(start_point, end_point, step_size) ==
  LET dy == end_point[1] - start_point[1]
      dx == end_point[2] - start_point[2]
      segment_length == Abs(dy) + Abs(dx)
      uy == IF dy > 0 THEN 1 ELSE IF dy < 0 THEN -1 ELSE 0
      ux == IF dx > 0 THEN 1 ELSE IF dx < 0 THEN -1 ELSE 0
      count == segment_length \div step_size
  IN IF segment_length = 0 THEN [points |-> <<>>, remaining |-> 0]
     ELSE [points |-> [i \in 1 .. count |-> <<start_point[1] + i * step_size * uy,
                                               start_point[2] + i * step_size * ux>>],
           remaining |-> segment_length - count * step_size]

\* the for loop of resample from segment i on
RECURSIVE ResampleLoop(_, _, _, _, _)
ResampleLoop(points, step_size, i, resampled_points, accumulated_distance) ==
  IF i > Len(points) THEN resampled_points
  ELSE LET seg == calculate_segment_points(points[i - 1], points[i],
                                           step_size - accumulated_distance)
       IN ResampleLoop(points, step_size, i + 1, resampled_points \o seg.points,
                       seg.remaining)

resample(path, step_size) ==
  IF Len(path) < 2 THEN path
  ELSE Append(ResampleLoop(path, step_size, 2, <<path[1]>>, 0), path[Len(path)])

\* ------------------------------------------- tsp.py: straight-line path --
\* One run of the while loop of create_straight_line_path from (x, y, err);
\* ln holds the loop's constants x1, y1, dx, dy, sx, sy.
RECURSIVE BresenhamLoop(_, _, _, _)
BresenhamLoop(ln, x, y, err) ==
  IF x = ln.x1 /\ y = ln.y1 THEN << <<y, x>> >>
  ELSE LET e2 == 2 * err
           stepx == e2 > -ln.dy
           err1 == IF stepx THEN err - ln.dy ELSE err
           xn == IF stepx THEN x + ln.sx ELSE x
           stepy == e2 < ln.dx
           err2 == IF stepy THEN err1 + ln.dx ELSE err1
           yn == IF stepy THEN y + ln.sy ELSE y
       IN << <<y, x>> >> \o BresenhamLoop(ln, xn, yn, err2)

\* the line as its two end points, the cells between them left out
create_straight_line_path_EndpointsOnly(start, end) ==
  IF start = end THEN <<start>> ELSE <<start, end>>

create_straight_line_path(start, end) ==
  LET y0 == start[1]
      x0 == start[2]
      y1 == end[1]
      x1 == end[2]
      dx == Abs(x1 - x0)
      dy == Abs(y1 - y0)
      sx == IF x0 < x1 THEN 1 ELSE -1
      sy == IF y0 < y1 THEN 1 ELSE -1
  IN BresenhamLoop([x1 |-> x1, y1 |-> y1, dx |-> dx, dy |-> dy, sx |-> sx, sy |-> sy],
                   x0, y0, dx - dy)

\* ------------------------------------------------------------ astar.py --
\* (dy, dx, cost) of the moves
OrthogonalMoves ==
  { [dy |-> 1, dx |-> 0, cost |-> <<1, 0>>], [dy |-> -1, dx |-> 0, cost |-> <<1, 0>>],
    [dy |-> 0, dx |-> 1, cost |-> <<1, 0>>], [dy |-> 0, dx |-> -1, cost |-> <<1, 0>>] }
DiagonalMoves ==
  { [dy |-> 1, dx |-> 1, cost |-> <<0, 1>>], [dy |-> 1, dx |-> -1, cost |-> <<0, 1>>],
    [dy |-> -1, dx |-> 1, cost |-> <<0, 1>>], [dy |-> -1, dx |-> -1, cost |-> <<0, 1>>] }
moves(diag) == IF diag THEN OrthogonalMoves \cup DiagonalMoves ELSE OrthogonalMoves

\* the Manhattan distance for both move sets: it overestimates a diagonal step
heuristic_Manhattan(a, b, diag) == <<Abs(a[1] - b[1]) + Abs(a[2] - b[2]), 0>>

\* octile distance D*(dy+dx) + (D2-2D)*min(dy,dx) with D = 1, D2 = sqrt(2), or
\* the Manhattan distance
heuristic(a, b, diag) ==
  LET dy == Abs(a[1] - b[1])
      dx == Abs(a[2] - b[2])
      m == Min2(dy, dx)
  IN IF diag THEN <<dy + dx - 2 * m, m>> ELSE <<dy + dx, 0>>

\* Python's order on the tuples (y, x)
CellLess(p, q) == p[1] < q[1] \/ (p[1] = q[1] /\ p[2] < q[2])

\* Python's order on the heap's tuples (f_cost, g_cost, node, par)
EntryLess(e1, e2) ==
  LET cf == CostCmp(e1.f, e2.f)
      cg == CostCmp(e1.g, e2.g)
  IN IF cf # 0 THEN cf < 0
     ELSE IF cg # 0 THEN cg < 0
     ELSE IF e1.node # e2.node THEN CellLess(e1.node, e2.node)
     ELSE CellLess(e1.par, e2.par)

\* the entry heapq.heappop removes when the keys are exact: the least one
heappop(heap) == CHOOSE e \in heap : \A o \in heap : o = e \/ EntryLess(e, o)

\* A float sum of 1s and sqrt(2)s depends on the order of its terms, so two
\* floats of the same exact value a + b*sqrt(2) may differ in the last bit.
\* A value with no sqrt(2) part is exact.
Inexact(c) == c[2] # 0
\* A g_cost is the running sum of the step costs: the same float for every
\* order of the terms unless both kinds of step occur.
OrderDependent(c) == c[1] # 0 /\ c[2] # 0

\* The entries heappop may remove: the least one; among entries whose f_cost
\* is the same inexact number, whichever the float rounding makes the least.
PopChoices(heap) ==
  LET m == heappop(heap)
  IN IF Inexact(m.f) THEN {e \in heap : CostCmp(e.f, m.f) = 0} ELSE {m}

HeapEntry(f, g, node, par) == [f |-> f, g |-> g, node |-> node, par |-> par]

Neighbor(e, m) == <<e.node[1] + m.dy, e.node[2] + m.dx>>

\* OpenMoves without the obstacle test of line 67
OpenMoves_NoObstacleTest(occ, diag, e) ==
  { m \in moves(diag) :
      is_valid_position(Neighbor(e, m)[1], Neighbor(e, m)[2], occ.H, occ.W) }

\* the moves out of entry e's node that reach a free cell inside the grid
OpenMoves(occ, diag, e) ==
  { m \in moves(diag) :
      /\ is_valid_position(Neighbor(e, m)[1], Neighbor(e, m)[2], occ.H, occ.W)
      /\ Neighbor(e, m) \notin occ.cells }

\* The moves the for loop pushes when the costs are exact: the neighbour is
\* strictly cheaper than its best known cost (line 70).
Improving(occ, diag, e, best) ==
  { m \in OpenMoves(occ, diag, e) :
      \/ Neighbor(e, m) \notin DOMAIN best
      \/ CostLess(CostAdd(e.g, m.cost), best[Neighbor(e, m)]) }

\* The moves for which line 70 compares two floats of the same exact value
\* summed in different orders: the float rounding decides the test.
Tied(occ, diag, e, best) ==
  { m \in OpenMoves(occ, diag, e) :
      /\ Neighbor(e, m) \in DOMAIN best
      /\ CostCmp(CostAdd(e.g, m.cost), best[Neighbor(e, m)]) = 0
      /\ OrderDependent(best[Neighbor(e, m)]) }

\* best_cost after the for loop of entry e pushed the moves in pushed
BestAfter(e, best, pushed) ==
  LET upd == {Neighbor(e, m) : m \in pushed}
  IN [c \in DOMAIN best \cup upd |->
        IF c \in upd
        THEN CostAdd(e.g, (CHOOSE m \in pushed : Neighbor(e, m) = c).cost)
        ELSE best[c]]

\* open_heap after the for loop of entry e (already popped) pushed the moves
HeapAfter(goal, diag, e, heap, pushed) ==
  heap \cup
  { HeapEntry(CostAdd(CostAdd(e.g, m.cost), heuristic(Neighbor(e, m), goal, diag)),
              CostAdd(e.g, m.cost), Neighbor(e, m), e.node) : m \in pushed }

\* the path reconstruction: walk the parent pointers from node, then reverse
RECURSIVE ReconstructPath(_, _)
ReconstructPath(par, node) ==
  IF par[node] = NoParent THEN <<node>>
  ELSE Append(ReconstructPath(par, par[node]), node)

SetParent(par, node, p) == [c \in DOMAIN par \cup {node} |-> IF c = node THEN p ELSE par[c]]

EmptyMap == [c \in {} |-> ZeroCost]

\* The while loop of astar run to its return, every tie resolved as the exact
\* keys order it.
RECURSIVE AstarLoop(_, _, _, _, _, _)
AstarLoop(occ, goal, diag, heap, best, par) ==
  IF heap = {} THEN None
  ELSE LET e == heappop(heap)
           rest == heap \ {e}
       IN IF e.node \in DOMAIN par THEN AstarLoop(occ, goal, diag, rest, best, par)
          ELSE LET par1 == SetParent(par, e.node, e.par)
                   pushed == Improving(occ, diag, e, best)
               IN IF e.node = goal THEN Some(ReconstructPath(par1, e.node))
                  ELSE AstarLoop(occ, goal, diag,
                                 HeapAfter(goal, diag, e, rest, pushed),
                                 BestAfter(e, best, pushed), par1)

astar(occ, start, goal, diag) ==
  IF start \in occ.cells \/ goal \in occ.cells THEN None
  ELSE AstarLoop(occ, goal, diag,
                 {HeapEntry(heuristic(start, goal, diag), ZeroCost, start, NoParent)},
                 [c \in {start} |-> ZeroCost], EmptyMap)

\* --------------------------------------- tsp.py: point-to-point router --
find_optimal_path_between_points(occ, start, end, allow_diagonals) ==
  IF line_free(occ, start, end) THEN Some(create_straight_line_path(start, end))
  ELSE astar(occ, start, end, allow_diagonals)

\* -------------------------------------------- tsp.py: distance matrix --
\* sqrt(dy^2 + dx^2) between two consecutive points of a routed path
StepCost(p, q) ==
  LET d2 == (q[1] - p[1]) * (q[1] - p[1]) + (q[2] - p[2]) * (q[2] - p[2])
  IN CASE d2 = 0 -> ZeroCost
       [] d2 = 1 -> <<1, 0>>
       [] d2 = 2 -> <<0, 1>>

\* the "Calculate path length" loop
RECURSIVE PathLength(_)
PathLength(path) ==
  IF Len(path) <= 1 THEN ZeroCost
  ELSE CostAdd(StepCost(path[1], path[2]), PathLength(Tail(path)))

NoMatrix == [found |-> FALSE, m |-> <<>>]

\* points is the 1-based sequence of the waypoints; the matrix keeps the
\* source's indices 0..n-1.
calculate_distance_matrix(occ, points, allow_diagonals) ==
  LET n == Len(points)
      legs == [i \in 0 .. n - 1 |-> [j \in 0 .. n - 1 |->
                IF i = j THEN Some(<<>>)
                ELSE find_optimal_path_between_points(occ, points[i + 1], points[j + 1],
                                                      allow_diagonals)]]
  IN IF \E i, j \in 0 .. n - 1 : ~legs[i][j].found THEN NoMatrix
     ELSE [found |-> TRUE,
           m |-> [i \in 0 .. n - 1 |-> [j \in 0 .. n - 1 |->
                    IF i = j THEN ZeroCost ELSE PathLength(legs[i][j].path)]]]

\* ------------------------------------------------ tsp.py: tour solvers --
\* the sequences itertools.permutations yields for the elements of S
RECURSIVE PermSeqs(_)
PermSeqs(S) ==
  IF S = {} THEN {<<>>}
  ELSE UNION {{<<x>> \o q : q \in PermSeqs(S \ {x})} : x \in S}

\* p comes before q in the order itertools.permutations(range(1, n)) yields
RECURSIVE LexLess(_, _)
LexLess(p, q) ==
  IF p = <<>> \/ q = <<>> THEN FALSE
  ELSE IF p[1] # q[1] THEN p[1] < q[1]
  ELSE LexLess(Tail(p), Tail(q))

\* total_distance of a closed order: the sum of matrix[order[i]][order[i + 1]]
RECURSIVE TourCost(_, _)
TourCost(m, order) ==
  IF Len(order) <= 1 THEN ZeroCost
  ELSE CostAdd(m[order[1]][order[2]], TourCost(m, Tail(order)))

RangeSeq(n) == [i \in 1 .. n |-> i - 1]

\* the least total over the orders without their closing edge back to 0
solve_tsp_brute_force_NoClosingEdge(distance_matrix) ==
  LET n == Cardinality(DOMAIN distance_matrix)
      orders == {<<0>> \o perm : perm \in PermSeqs(1 .. n - 1)}
      least == {o \in orders :
                  \A q \in orders : CostLeq(TourCost(distance_matrix, o),
                                            TourCost(distance_matrix, q))}
  IN {[order |-> Append(o, 0), total |-> TourCost(distance_matrix, o)] : o \in least}

\* What solve_tsp_brute_force can return, as [order, total].  The loop keeps the
\* first order whose float total is the least.  Totals with no sqrt(2) part are
\* exact, so the first least order is returned; orders whose totals are the same
\* inexact number are told apart by the float rounding of their sums.
solve_tsp_brute_force(distance_matrix) ==
  LET n == Cardinality(DOMAIN distance_matrix)
  IN IF n <= 1 THEN {[order |-> RangeSeq(n), total |-> ZeroCost]}
     ELSE IF n = 2
     THEN {[order |-> <<0, 1, 0>>,
            total |-> CostAdd(distance_matrix[0][1], distance_matrix[1][0])]}
     ELSE LET orders == {<<0>> \o perm \o <<0>> : perm \in PermSeqs(1 .. n - 1)}
              least == {o \in orders :
                          \A q \in orders : CostLeq(TourCost(distance_matrix, o),
                                                    TourCost(distance_matrix, q))}
              first == CHOOSE o \in least : \A q \in least : q = o \/ LexLess(o, q)
              kept == IF Inexact(TourCost(distance_matrix, first)) THEN least ELSE {first}
          IN {[order |-> o, total |-> TourCost(distance_matrix, o)] : o \in kept}

\* the for loop keeps the last nearest index (<= for <)
RECURSIVE NearestNeighborLoop_LastMinimum(_, _, _, _, _)
NearestNeighborLoop_LastMinimum(m, start_idx, order, unvisited, total) ==
  IF unvisited = {}
  THEN {[order |-> Append(order, start_idx),
         total |-> CostAdd(total, m[order[Len(order)]][start_idx])]}
  ELSE LET current == order[Len(order)]
           nearest == {p \in unvisited :
                         \A q \in unvisited : CostLeq(m[current][p], m[current][q])}
           last == CHOOSE p \in nearest : \A q \in nearest : p >= q
       IN NearestNeighborLoop_LastMinimum(m, start_idx, Append(order, last),
                                          unvisited \ {last}, CostAdd(total, m[current][last]))

\* The while loop of solve_tsp_nearest_neighbor from (order, unvisited, total):
\* the set of [order, total] it can end with.  The for loop over the set of
\* unvisited indices keeps the first nearest one; distances that are the same
\* inexact number are told apart by the float rounding.
RECURSIVE NearestNeighborLoop(_, _, _, _, _)
NearestNeighborLoop(m, start_idx, order, unvisited, total) ==
  IF unvisited = {}
  THEN {[order |-> Append(order, start_idx),
         total |-> CostAdd(total, m[order[Len(order)]][start_idx])]}
  ELSE LET current == order[Len(order)]
           nearest == {p \in unvisited :
                         \A q \in unvisited : CostLeq(m[current][p], m[current][q])}
           first == CHOOSE p \in nearest : \A q \in nearest : p <= q
           kept == IF Inexact(m[current][first]) THEN nearest ELSE {first}
       IN UNION { NearestNeighborLoop(m, start_idx, Append(order, p), unvisited \ {p},
                                      CostAdd(total, m[current][p])) : p \in kept }

\* the order returned as visited, the closing index not appended
solve_tsp_nearest_neighbor_Open(distance_matrix, start_idx) ==
  LET n == Cardinality(DOMAIN distance_matrix)
  IN { [order |-> SubSeq(t.order, 1, Len(t.order) - 1), total |-> t.total] :
         t \in NearestNeighborLoop(distance_matrix, start_idx, <<start_idx>>,
                                   (0 .. n - 1) \ {start_idx}, ZeroCost) }

solve_tsp_nearest_neighbor(distance_matrix, start_idx) ==
  LET n == Cardinality(DOMAIN distance_matrix)
  IN IF n <= 1 THEN {[order |-> RangeSeq(n), total |-> ZeroCost]}
     ELSE IF n = 2
     THEN {[order |-> <<start_idx, 1 - start_idx, start_idx>>,
            total |-> CostAdd(distance_matrix[start_idx][1 - start_idx],
                              distance_matrix[1 - start_idx][start_idx])]}
     ELSE NearestNeighborLoop(distance_matrix, start_idx, <<start_idx>>,
                              (0 .. n - 1) \ {start_idx}, ZeroCost)

\* ------------------------------------ tsp.py: multi-waypoint path builder --
\* the value find_optimal_path_through_waypoints returns: None, or the tuple
\* (complete_path, return_start_index)
PlanNone == [ok |-> FALSE, path |-> <<>>, return_start_index |-> -1]
PlanTuple(path, idx) == [ok |-> TRUE, path |-> path, return_start_index |-> idx]

\* tours longer than this are solved by the heuristic
BruteForceLimit == 8

\* Lines 215-244: the values path_order can take, as [found, order]; found is
\* FALSE when the distance matrix is None.
PathOrders(occ, wps, allow_diagonals, optimize_order) ==
  IF optimize_order
  THEN LET dm == calculate_distance_matrix(occ, wps, allow_diagonals)
       IN IF ~dm.found THEN {[found |-> FALSE, order |-> <<>>]}
          ELSE LET tours == IF Len(wps) <= BruteForceLimit
                            THEN solve_tsp_brute_force(dm.m)
                            ELSE solve_tsp_nearest_neighbor(dm.m, 0)
               IN { [found |-> TRUE,
                     order |-> IF Len(t.order) > 1 /\ t.order[Len(t.order)] = t.order[1]
                               THEN SubSeq(t.order, 1, Len(t.order) - 1)
                               ELSE t.order] : t \in tours }
  ELSE {[found |-> TRUE, order |-> RangeSeq(Len(wps))]}

\* the segment of the i-th leg of path_order (i = 1 is the first leg)
Leg(occ, wps, allow_diagonals, path_order, i) ==
  find_optimal_path_between_points(occ, wps[path_order[i] + 1], wps[path_order[i + 1] + 1],
                                   allow_diagonals)

\* every leg appended whole: the shared end points appear twice
RECURSIVE JoinLegs_KeepFirst(_, _)
JoinLegs_KeepFirst(legs, k) ==
  IF k = 0 THEN <<>>
  ELSE JoinLegs_KeepFirst(legs, k - 1) \o legs[k].path

\* lines 247-269: complete_path after the legs 1..k, each leg but the first
\* without its first point
RECURSIVE JoinLegs(_, _)
JoinLegs(legs, k) ==
  IF k = 0 THEN <<>>
  ELSE IF k = 1 THEN legs[1].path
  ELSE JoinLegs(legs, k - 1) \o Tail(legs[k].path)

\* an unreachable leg ends the path where it is instead of failing the call
BuildPath_PartialPath(occ, wps, allow_diagonals, path_order, include_return) ==
  LET nlegs == Len(path_order) - 1
      legs == [i \in 1 .. nlegs |-> Leg(occ, wps, allow_diagonals, path_order, i)]
      reached == CHOOSE k \in 0 .. nlegs :
                   /\ \A i \in 1 .. k : legs[i].found
                   /\ k < nlegs => ~legs[k + 1].found
  IN PlanTuple(JoinLegs(legs, reached), -1)

\* an unreachable return leg fails the call like any other leg
BuildPath_ReturnIsFatal(occ, wps, allow_diagonals, path_order, include_return) ==
  LET nlegs == Len(path_order) - 1
      legs == [i \in 1 .. nlegs |-> Leg(occ, wps, allow_diagonals, path_order, i)]
      back == find_optimal_path_between_points(
                occ, wps[path_order[Len(path_order)] + 1], wps[path_order[1] + 1],
                allow_diagonals)
  IN IF \E i \in 1 .. nlegs : ~legs[i].found THEN PlanNone
     ELSE IF ~include_return THEN PlanTuple(JoinLegs(legs, nlegs), -1)
     ELSE IF ~back.found THEN PlanNone
     ELSE PlanTuple(JoinLegs(legs, nlegs) \o Tail(back.path), Len(JoinLegs(legs, nlegs)))

\* lines 246-309, for one value of path_order
BuildPath(occ, wps, allow_diagonals, path_order, include_return) ==
  LET nlegs == Len(path_order) - 1
      legs == [i \in 1 .. nlegs |-> Leg(occ, wps, allow_diagonals, path_order, i)]
  IN IF \E i \in 1 .. nlegs : ~legs[i].found THEN PlanNone
     ELSE LET complete_path == JoinLegs(legs, nlegs)
          IN IF include_return /\ Len(wps) >= 2
             THEN LET return_path ==
                        find_optimal_path_between_points(
                          occ, wps[path_order[Len(path_order)] + 1], wps[path_order[1] + 1],
                          allow_diagonals)
                  IN IF ~return_path.found THEN PlanTuple(complete_path, -1)
                     ELSE PlanTuple(complete_path \o Tail(return_path.path),
                                    Len(complete_path))
             ELSE PlanTuple(complete_path, -1)

\* the empty waypoint list returned as a path, like a list of one
find_optimal_path_through_waypoints_EmptyIsPath(occ, wps, allow_diagonals, optimize_order, include_return) ==
  IF Len(wps) <= 1
  THEN {[path_order |-> <<>>, value |-> PlanTuple(wps, -1)]}
  ELSE { IF ~po.found THEN [path_order |-> <<>>, value |-> PlanNone]
         ELSE [path_order |-> po.order,
               value |-> BuildPath(occ, wps, allow_diagonals, po.order, include_return)] :
           po \in PathOrders(occ, wps, allow_diagonals, optimize_order) }

\* What a call can return, with the path_order it used: [path_order, value].
find_optimal_path_through_waypoints(occ, wps, allow_diagonals, optimize_order, include_return) ==
  IF Len(wps) <= 1
  THEN {[path_order |-> <<>>,
         value |-> IF wps # <<>> THEN PlanTuple(wps, -1) ELSE PlanNone]}
  ELSE { IF ~po.found THEN [path_order |-> <<>>, value |-> PlanNone]
         ELSE [path_order |-> po.order,
               value |-> BuildPath(occ, wps, allow_diagonals, po.order, include_return)] :
           po \in PathOrders(occ, wps, allow_diagonals, optimize_order) }

\* ------------------------------------------------------------- state --
VARIABLES
  occ,          \* the occupancy grid handed to the planning calls
  start,        \* astar / router arguments
  goal,
  diag,
  open_heap,    \* astar's locals
  best_cost,
  parent,
  pc,           \* where the call is: "entry", "loop", "done", "routed"
  result,       \* what astar returned
  routed,       \* what find_optimal_path_between_points returned
  waypoints,    \* the waypoint list handed to the path builder
  planned,      \* the last call of the path builder and what it returned
  matrix,       \* the matrix handed to a tour solver, or calculate_distance_matrix's
  tour,         \* the last call of a tour solver and what it returned
  inflated,     \* the last call of inflate and what it returned
  sight,        \* what line_free returned, by direction of the call
  given_path,   \* the path handed to shortcut or resample
  shortcut_points, \* shortcut's local points
  budget,       \* iterations shortcut's for loop has left
  smooth_pc,    \* where shortcut is: "idle", "loop", "done"
  step,         \* resample's step_size
  resampled,    \* what resample returned
  game_state,   \* the editor's GameState
  widgets       \* the toggle's is_toggled

astarVars == <<start, goal, diag, open_heap, best_cost, parent, pc, result, routed>>
planVars == <<waypoints, planned>>
tspVars == <<matrix, tour>>
gridVars == <<inflated, sight>>
smoothVars == <<given_path, shortcut_points, budget, smooth_pc, step, resampled>>
utilVars == <<tspVars, gridVars, smoothVars>>
editorVars == <<game_state, widgets>>
vars == <<occ, astarVars, planVars, utilVars, editorVars>>

\* no call of the path builder made
NotPlanned ==
  [called |-> FALSE, allow_diagonals |-> FALSE, optimize_order |-> FALSE,
   include_return |-> FALSE, path_order |-> <<>>, value |-> PlanNone]

\* no tour solver called
NoTour == [called |-> FALSE, solver |-> "", start_idx |-> 0, order |-> <<>>, total |-> ZeroCost]
\* inflate not called
NotInflated == [called |-> FALSE, base_radius |-> 0, extra_radius |-> 0, cells |-> {}]
\* line_free called in neither direction
NoSight == [calls |-> 0, p |-> <<0, 0>>, q |-> <<0, 0>>, there |-> FALSE, back |-> FALSE]
\* neither shortcut nor resample running
NotResampled == [called |-> FALSE, out |-> <<>>]

NoMatrixYet == [called |-> FALSE, allow_diagonals |-> FALSE, found |-> FALSE, m |-> <<>>]
TspIdle == matrix = NoMatrixYet /\ tour = NoTour
GridIdle == inflated = NotInflated /\ sight = NoSight
SmoothIdle ==
  /\ given_path = <<>>
  /\ shortcut_points = <<>>
  /\ budget = 0
  /\ smooth_pc = "idle"
  /\ step = 1
  /\ resampled = NotResampled
\* the editor not started
NoGame == [mode |-> "none"]
NoWidgets == [is_toggled |-> FALSE]
EditorIdle == game_state = NoGame /\ widgets = NoWidgets
UtilIdle == TspIdle /\ GridIdle /\ SmoothIdle

\* ------------------------------------- astar, one loop iteration a step --
\* lines 19-21 left out: the search starts whatever the two cells hold
AstarEnter_NoOccupiedTest ==
  /\ pc = "entry"
  /\ open_heap' = {HeapEntry(heuristic(start, goal, diag), ZeroCost, start, NoParent)}
  /\ best_cost' = [c \in {start} |-> ZeroCost]
  /\ pc' = "loop"
  /\ UNCHANGED <<result, occ, start, goal, diag, parent, routed, planVars, utilVars, editorVars>>

\* lines 19-21 and 39-42: the occupied test, then the first push
AstarEnter ==
  /\ pc = "entry"
  /\ IF start \in occ.cells \/ goal \in occ.cells
     THEN /\ result' = None
          /\ pc' = "done"
          /\ UNCHANGED <<open_heap, best_cost>>
     ELSE /\ open_heap' = {HeapEntry(heuristic(start, goal, diag), ZeroCost, start, NoParent)}
          /\ best_cost' = [c \in {start} |-> ZeroCost]
          /\ pc' = "loop"
          /\ UNCHANGED result
  /\ UNCHANGED <<occ, start, goal, diag, parent, routed, planVars, utilVars, editorVars>>

\* lines 45-47: a popped entry whose node already has a parent is dropped
AstarSkipStale ==
  /\ pc = "loop"
  /\ open_heap # {}
  /\ \E e \in PopChoices(open_heap) :
        /\ e.node \in DOMAIN parent
        /\ open_heap' = open_heap \ {e}
  /\ UNCHANGED <<occ, start, goal, diag, best_cost, parent, pc, result, routed, planVars, utilVars, editorVars>>

\* lines 48-58: the goal is popped, the path is rebuilt and returned
AstarReachGoal ==
  /\ pc = "loop"
  /\ open_heap # {}
  /\ \E e \in PopChoices(open_heap) :
        /\ e.node \notin DOMAIN parent
        /\ e.node = goal
        /\ open_heap' = open_heap \ {e}
        /\ parent' = SetParent(parent, e.node, e.par)
        /\ result' = Some(ReconstructPath(parent', e.node))
  /\ pc' = "done"
  /\ UNCHANGED <<occ, start, goal, diag, best_cost, routed, planVars, utilVars, editorVars>>

\* lines 48, 60-73: another node is popped and its neighbours are pushed
AstarExpand ==
  /\ pc = "loop"
  /\ open_heap # {}
  /\ \E e \in PopChoices(open_heap) :
        /\ e.node \notin DOMAIN parent
        /\ e.node # goal
        /\ parent' = SetParent(parent, e.node, e.par)
        /\ \E extra \in SUBSET Tied(occ, diag, e, best_cost) :
             LET pushed == Improving(occ, diag, e, best_cost) \cup extra
             IN /\ best_cost' = BestAfter(e, best_cost, pushed)
                /\ open_heap' = HeapAfter(goal, diag, e, open_heap \ {e}, pushed)
  /\ UNCHANGED <<occ, start, goal, diag, pc, result, routed, planVars, utilVars, editorVars>>

\* lines 44, 75: the heap is empty
AstarExhausted ==
  /\ pc = "loop"
  /\ open_heap = {}
  /\ result' = None
  /\ pc' = "done"
  /\ UNCHANGED <<occ, start, goal, diag, open_heap, best_cost, parent, routed, planVars, utilVars, editorVars>>

\* the router called on the same arguments
RouteCall ==
  /\ pc = "done"
  /\ routed' = find_optimal_path_between_points(occ, start, goal, diag)
  /\ pc' = "routed"
  /\ UNCHANGED <<occ, start, goal, diag, open_heap, best_cost, parent, result, planVars, utilVars, editorVars>>

Init ==
  /\ occ \in Grids(GridH, GridW, MaxObstacles)
  /\ start \in Cells(GridH, GridW)
  /\ goal \in Cells(GridH, GridW)
  /\ diag \in BOOLEAN
  /\ open_heap = {}
  /\ best_cost = EmptyMap
  /\ parent = EmptyMap
  /\ pc = "entry"
  /\ result = None
  /\ routed = None
  /\ waypoints = <<>>
  /\ planned = NotPlanned
  /\ EditorIdle
  /\ UtilIdle

\* one step of a running call of astar
AstarStep ==
  \/ AstarEnter
  \/ AstarSkipStale
  \/ AstarReachGoal
  \/ AstarExpand
  \/ AstarExhausted

Next ==
  \/ AstarStep
  \/ RouteCall

Spec == Init /\ [][Next]_vars

\* ------------------------------------------- the path builder, called --
\* all sequences over S of a length in lo..hi
SeqsOfLength(S, lo, hi) == UNION {[1 .. n -> S] : n \in lo .. hi}

\* a call find_optimal_path_through_waypoints(occ, waypoints, d, o, r)
PlanCall ==
  /\ pc = "idle"
  /\ ~planned.called
  /\ \E d \in BOOLEAN, o \in BOOLEAN, r \in BOOLEAN :
       \E out \in find_optimal_path_through_waypoints(occ, waypoints, d, o, r) :
         planned' = [called |-> TRUE, allow_diagonals |-> d, optimize_order |-> o,
                     include_return |-> r, path_order |-> out.path_order,
                     value |-> out.value]
  /\ UNCHANGED <<occ, astarVars, waypoints, utilVars, editorVars>>

AstarIdle ==
  /\ start = <<0, 0>>
  /\ goal = <<0, 0>>
  /\ diag = FALSE
  /\ open_heap = {}
  /\ best_cost = EmptyMap
  /\ parent = EmptyMap
  /\ pc = "idle"
  /\ result = None
  /\ routed = None

PlanInit ==
  /\ occ \in Grids(PlanH, PlanW, PlanObstacles)
  /\ waypoints \in SeqsOfLength(Cells(PlanH, PlanW), 0, MaxWaypoints)
  /\ planned = NotPlanned
  /\ AstarIdle
  /\ EditorIdle
  /\ UtilIdle

WideInit ==
  /\ occ \in Grids(PlanH, WideW, WideObstacles)
  /\ waypoints \in SeqsOfLength(Cells(PlanH, WideW), 0, WideWaypoints)
  /\ planned = NotPlanned
  /\ AstarIdle
  /\ EditorIdle
  /\ UtilIdle

PlanNext == PlanCall

PlanSpec == PlanInit /\ [][PlanNext]_vars

WideSpec == WideInit /\ [][PlanNext]_vars

\* ------------------------------------------ the tour solvers, called --
\* the lengths a matrix entry takes
EdgeCosts == {<<1, 0>>, <<0, 1>>}

\* the n x n matrices with a zero diagonal and the other entries in EdgeCosts
Matrices(n) ==
  LET pairs == {ij \in (0 .. n - 1) \X (0 .. n - 1) : ij[1] # ij[2]}
  IN { [i \in 0 .. n - 1 |-> [j \in 0 .. n - 1 |->
          IF i = j THEN ZeroCost ELSE f[<<i, j>>]]] : f \in [pairs -> EdgeCosts] }

\* a call solve_tsp_brute_force(matrix)
BruteForceCall ==
  /\ pc = "idle"
  /\ matrix.found
  /\ ~tour.called
  /\ \E out \in solve_tsp_brute_force(matrix.m) :
       tour' = [called |-> TRUE, solver |-> "brute_force", start_idx |-> 0,
                order |-> out.order, total |-> out.total]
  /\ UNCHANGED <<occ, astarVars, planVars, matrix, gridVars, smoothVars, editorVars>>

\* a call solve_tsp_nearest_neighbor(matrix, start_idx)
NearestNeighborCall ==
  /\ pc = "idle"
  /\ matrix.found
  /\ ~tour.called
  /\ \E start_idx \in DOMAIN matrix.m :
       \E out \in solve_tsp_nearest_neighbor(matrix.m, start_idx) :
         tour' = [called |-> TRUE, solver |-> "nearest_neighbor", start_idx |-> start_idx,
                  order |-> out.order, total |-> out.total]
  /\ UNCHANGED <<occ, astarVars, planVars, matrix, gridVars, smoothVars, editorVars>>

TspInit ==
  /\ occ = [H |-> 1, W |-> 1, cells |-> {}]
  /\ waypoints = <<>>
  /\ planned = NotPlanned
  /\ AstarIdle
  /\ EditorIdle
  /\ \E n \in 2 .. MaxCities : matrix \in {[called |-> FALSE, allow_diagonals |-> FALSE, found |-> TRUE, m |-> m] :
                                              m \in Matrices(n)}
  /\ tour = NoTour
  /\ GridIdle
  /\ SmoothIdle

TspNext == BruteForceCall \/ NearestNeighborCall

TspSpec == TspInit /\ [][TspNext]_vars

\* ------------------------------------------------- inflate, called --
\* a call inflate(occ, base_radius, extra_radius); main.py calls it again on
\* the same base grid whenever a radius changes
InflateCall ==
  /\ pc = "idle"
  /\ \E base_radius \in -MaxRadius .. MaxRadius, extra_radius \in -MaxExtra .. MaxExtra :
       inflated' = [called |-> TRUE, base_radius |-> base_radius,
                    extra_radius |-> extra_radius,
                    cells |-> inflate(occ, base_radius, extra_radius).cells]
  /\ UNCHANGED <<occ, astarVars, planVars, tspVars, sight, smoothVars, editorVars>>

InflateInit ==
  /\ occ \in Grids(GridH, GridW, MaxObstacles)
  /\ waypoints = <<>>
  /\ planned = NotPlanned
  /\ AstarIdle
  /\ EditorIdle
  /\ UtilIdle

InflateNext == InflateCall

InflateSpec == InflateInit /\ [][InflateNext]_vars

\* ------------------------------------------------ line_free, called --
\* the points line_free is called on: the cells of the grid and the cells
\* one row below and one column right of it, which are out of bounds
LinePoints == (0 .. PlanH) \X (0 .. WideW)

\* a call line_free(occ, p, q)
LineFreeCall ==
  /\ pc = "idle"
  /\ sight.calls = 0
  /\ \E p \in LinePoints, q \in LinePoints :
       sight' = [calls |-> 1, p |-> p, q |-> q, there |-> line_free(occ, p, q), back |-> FALSE]
  /\ UNCHANGED <<occ, astarVars, planVars, tspVars, inflated, smoothVars, editorVars>>

\* the call with the end points exchanged, line_free(occ, q, p)
LineFreeBack ==
  /\ pc = "idle"
  /\ sight.calls = 1
  /\ sight' = [sight EXCEPT !.calls = 2, !.back = line_free(occ, sight.q, sight.p)]
  /\ UNCHANGED <<occ, astarVars, planVars, tspVars, inflated, smoothVars, editorVars>>

LineInit ==
  /\ occ \in Grids(PlanH, WideW, WideObstacles)
  /\ waypoints = <<>>
  /\ planned = NotPlanned
  /\ AstarIdle
  /\ EditorIdle
  /\ UtilIdle

LineNext == LineFreeCall \/ LineFreeBack

LineSpec == LineInit /\ [][LineNext]_vars

\* ------------------------------------- calculate_distance_matrix, called --
\* a call calculate_distance_matrix(occ, waypoints, allow_diagonals)
MatrixCall ==
  /\ pc = "idle"
  /\ ~matrix.called
  /\ \E d \in BOOLEAN :
       LET dm == calculate_distance_matrix(occ, waypoints, d)
       IN matrix' = [called |-> TRUE, allow_diagonals |-> d, found |-> dm.found, m |-> dm.m]
  /\ UNCHANGED <<occ, astarVars, planVars, tour, gridVars, smoothVars, editorVars>>

MatrixNext == MatrixCall

MatrixSpec == WideInit /\ [][MatrixNext]_vars

\* ------------------------------------------------- shortcut, called --
\* the paths the router and astar give for start, goal and diag
RoutedPaths ==
  { r.path : r \in { x \in { find_optimal_path_between_points(occ, start, goal, diag),
                              astar(occ, start, goal, diag) } : x.found } }

\* shortcut(occ, path, radius, max_iterations) is entered: a path of two
\* points or fewer is returned as it is, a longer one is copied into points
ShortcutEnter ==
  /\ smooth_pc = "idle"
  /\ \E path \in RoutedPaths, max_iterations \in 0 .. MaxIterations :
       /\ given_path' = path
       /\ shortcut_points' = path
       /\ budget' = max_iterations
       /\ smooth_pc' = IF Len(path) <= 2 THEN "done" ELSE "loop"
  /\ UNCHANGED <<occ, astarVars, planVars, tspVars, gridVars, step, resampled, editorVars>>

\* one iteration of the for loop, for one draw of the two random indices
ShortcutIterate ==
  /\ smooth_pc = "loop"
  /\ budget > 0
  /\ Len(shortcut_points) > 2
  /\ \E start_idx \in 0 .. Len(shortcut_points) - 3 :
       \E end_idx \in start_idx + 2 .. Len(shortcut_points) - 1 :
         LET new_points == try_shortcut(occ, shortcut_points, start_idx, end_idx)
         IN shortcut_points' = IF Len(new_points) < Len(shortcut_points)
                               THEN new_points ELSE shortcut_points
  /\ budget' = budget - 1
  /\ UNCHANGED <<occ, astarVars, planVars, tspVars, gridVars, given_path, smooth_pc, step, resampled, editorVars>>

\* the loop ends, by its range or by the break, and points is returned
ShortcutReturn ==
  /\ smooth_pc = "loop"
  /\ budget = 0 \/ Len(shortcut_points) <= 2
  /\ smooth_pc' = "done"
  /\ UNCHANGED <<occ, astarVars, planVars, tspVars, gridVars, given_path, shortcut_points, budget, step, resampled, editorVars>>

ShortcutInit ==
  /\ occ \in Grids(GridH, GridW, MaxObstacles)
  /\ start \in Cells(GridH, GridW)
  /\ goal \in Cells(GridH, GridW)
  /\ diag \in BOOLEAN
  /\ open_heap = {}
  /\ best_cost = EmptyMap
  /\ parent = EmptyMap
  /\ pc = "idle"
  /\ result = None
  /\ routed = None
  /\ waypoints = <<>>
  /\ planned = NotPlanned
  /\ EditorIdle
  /\ UtilIdle

ShortcutNext == ShortcutEnter \/ ShortcutIterate \/ ShortcutReturn

ShortcutSpec == ShortcutInit /\ [][ShortcutNext]_vars

\* ------------------------------------------------- resample, called --
\* the paths along the row 0 that never turn back, of 0 .. MaxPathLen points
RECURSIVE StraightPaths(_)
StraightPaths(n) ==
  IF n = 0 THEN {<<>>}
  ELSE LET shorter == StraightPaths(n - 1)
       IN shorter \cup
          { Append(q, <<0, x>>) : q \in {r \in shorter : Len(r) = n - 1},
                                  x \in 0 .. MaxCoord }

\* a call resample(given_path, step)
ResampleCall ==
  /\ smooth_pc = "idle"
  /\ ~resampled.called
  /\ resampled' = [called |-> TRUE, out |-> resample(given_path, step)]
  /\ UNCHANGED <<occ, astarVars, planVars, tspVars, gridVars, given_path, shortcut_points, budget, smooth_pc, step, editorVars>>

ResampleInit ==
  /\ occ = [H |-> 1, W |-> MaxCoord + 1, cells |-> {}]
  /\ waypoints = <<>>
  /\ planned = NotPlanned
  /\ AstarIdle
  /\ EditorIdle
  /\ TspIdle
  /\ GridIdle
  /\ given_path \in { q \in StraightPaths(MaxPathLen) :
                        \A i \in 1 .. Len(q) - 1 : q[i][2] <= q[i + 1][2] }
  /\ shortcut_points = <<>>
  /\ budget = 0
  /\ smooth_pc = "idle"
  /\ step \in 1 .. MaxStep
  /\ resampled = NotResampled

ResampleNext == ResampleCall

ResampleSpec == ResampleInit /\ [][ResampleNext]_vars

\* ------------------------------- the path builder on four waypoints --
OrderInit ==
  /\ occ \in Grids(PlanH, PlanW, OrderObstacles)
  /\ waypoints \in SeqsOfLength(Cells(PlanH, PlanW), 0, OrderWaypoints)
  /\ planned = NotPlanned
  /\ AstarIdle
  /\ EditorIdle
  /\ UtilIdle

OrderSpec == OrderInit /\ [][PlanNext]_vars

\* ------------------------------------------------------ main.py: editor --
\* The editor on a map of EditorH x EditorW cells.
EditorH == 1
EditorW == 3
EditorObstacles == 1
EditorWaypoints == 2

DRONE_RADIUS_PIX == 3
DRONE_SAFETY_BUFFER == 1
ALLOW_DIAGONALS == TRUE
ANIM_SPEED == 2
DRAW_RADIUS == 3
\* plan_path resamples at 0.6 cell: lengths of the animation are in fifths
\* of a cell, AnimUnit to the cell, and 0.6 cell is ResampleStep of them
AnimUnit == 5
ResampleStep == 3
\* cells of the path drawn per frame
PathDrawStep == 3

\* prev_mouse_pos = None
NoPos == <<>>

Buttons == <<"Draw Map", "Eraser", "Set Points", "Find Path", "Replay">>
\* the place of an event that is off the map
OffMap == <<-1, -1>>
MouseButtons == {1, 2, 3}
Keys == {"K_s", "K_SPACE", "K_a", "K_x"}

\* the inflation of gs.base_occ by gs.radius and gs.extra cells
Inflated(gs) == inflate(gs.base_occ, 2 * gs.radius, 2 * gs.extra)

\* game_state.occ = inflate(game_state.base_occ, radius, extra) left out
RecomputeOcc_Stale(gs) == gs

\* game_state.occ = inflate(game_state.base_occ, game_state.radius, game_state.extra)
RecomputeOcc(gs) == [gs EXCEPT !.occ = Inflated(gs)]

\* draw_at_position: the square of side 2 * DRAW_RADIUS + 1 around (y, x),
\* clipped to the map, made obstacle or free
draw_at_position(base_occ, y, x, is_drawing) ==
  LET block == { c \in Cells(base_occ.H, base_occ.W) :
                   /\ Abs(c[1] - y) <= DRAW_RADIUS
                   /\ Abs(c[2] - x) <= DRAW_RADIUS }
  IN [base_occ EXCEPT !.cells = IF is_drawing THEN @ \cup block ELSE @ \ block]

RECURSIVE DrawAlong(_, _, _, _)
DrawAlong(base_occ, line, i, is_drawing) ==
  IF i > Len(line) THEN base_occ
  ELSE DrawAlong(draw_at_position(base_occ, line[i][1], line[i][2], is_drawing),
                 line, i + 1, is_drawing)

\* draw_line_between_positions: draw_at_position at every cell of the
\* Bresenham walk from start_pos to end_pos (the walk of
\* create_straight_line_path, written out again in main.py)
draw_line_between_positions(base_occ, start_pos, end_pos, is_drawing) ==
  DrawAlong(base_occ, create_straight_line_path(start_pos, end_pos), 1, is_drawing)

\* the six assignments after a change of the waypoint list
ClearPath(gs) ==
  [gs EXCEPT !.path = None, !.anim = None, !.ai = 0, !.animating = FALSE,
             !.path_draw_index = 0, !.path_animating = FALSE]

\* the pop of the last waypoint with the six assignments left out
RemoveWaypoint_KeepPath(gs) ==
  [gs EXCEPT !.waypoints = SubSeq(@, 1, Len(@) - 1)]

\* set_points mode, button 3, a waypoint to remove
RemoveWaypoint(gs) ==
  ClearPath([gs EXCEPT !.waypoints = SubSeq(@, 1, Len(@) - 1)])

handle_mouse_button_down(gs, cell, button) ==
  LET y == cell[1]
      x == cell[2]
  IN IF y >= gs.base_occ.H \/ x >= gs.base_occ.W \/ y < 0 \/ x < 0 THEN gs
     ELSE IF gs.mode = "draw" THEN
       RecomputeOcc(
         IF button = 1
         THEN [gs EXCEPT !.left_mouse_down = TRUE, !.prev_mouse_pos = cell,
                         !.base_occ = draw_at_position(@, y, x, TRUE)]
         ELSE IF button = 3
         THEN [gs EXCEPT !.right_mouse_down = TRUE, !.prev_mouse_pos = cell,
                         !.base_occ = draw_at_position(@, y, x, FALSE)]
         ELSE gs)
     ELSE IF gs.mode = "erase" THEN
       RecomputeOcc(
         IF button = 1
         THEN [gs EXCEPT !.left_mouse_down = TRUE, !.prev_mouse_pos = cell,
                         !.base_occ = draw_at_position(@, y, x, FALSE)]
         ELSE IF button = 3
         THEN [gs EXCEPT !.right_mouse_down = TRUE, !.prev_mouse_pos = cell,
                         !.base_occ = draw_at_position(@, y, x, FALSE)]
         ELSE gs)
     ELSE IF gs.mode = "set_points" THEN
       IF button = 1
       THEN IF cell \notin gs.occ.cells
            THEN ClearPath([gs EXCEPT !.waypoints = Append(@, cell)])
            ELSE gs
       ELSE IF button = 3
       THEN IF gs.waypoints # <<>> THEN RemoveWaypoint(gs) ELSE gs
       ELSE gs
     ELSE gs

handle_mouse_button_up(gs, button) ==
  IF button = 1 THEN [gs EXCEPT !.left_mouse_down = FALSE, !.prev_mouse_pos = NoPos]
  ELSE IF button = 3 THEN [gs EXCEPT !.right_mouse_down = FALSE, !.prev_mouse_pos = NoPos]
  ELSE gs

handle_mouse_motion(gs, cell) ==
  LET y == cell[1]
      x == cell[2]
      is_drawing == gs.left_mouse_down
  IN IF gs.mode # "draw" THEN gs
     ELSE IF ~(gs.left_mouse_down \/ gs.right_mouse_down) THEN gs
     ELSE IF y >= gs.base_occ.H \/ x >= gs.base_occ.W \/ y < 0 \/ x < 0 THEN gs
     ELSE RecomputeOcc(
            [gs EXCEPT !.base_occ =
                         IF gs.prev_mouse_pos # NoPos
                         THEN draw_line_between_positions(@, gs.prev_mouse_pos, cell, is_drawing)
                         ELSE draw_at_position(@, y, x, is_drawing),
                       !.prev_mouse_pos = cell])

\* a Python list or None taken as a condition
Truthy(opt) == opt.found /\ opt.path # <<>>

start_path_animation(gs) ==
  IF Truthy(gs.path)
  THEN [gs EXCEPT !.path_draw_index = 0, !.path_animating = TRUE, !.animating = FALSE]
  ELSE gs

\* the path in the units of the animation
AnimPoints(path) == [i \in 1 .. Len(path) |-> <<AnimUnit * path[i][1], AnimUnit * path[i][2]>>]

\* plan_path from the call of find_optimal_path_through_waypoints on:
\* path_result is what the call returned.  path_from is not a field of
\* GameState: it records the waypoint list game_state.path was built from.
PlanWith(gs, path_result) ==
  IF path_result.ok /\ path_result.path # <<>>
  THEN start_path_animation(
         [gs EXCEPT !.path = Some(path_result.path),
                    !.return_start_index = path_result.return_start_index,
                    !.anim = Some(resample(AnimPoints(path_result.path), ResampleStep)),
                    !.ai = 0,
                    !.animating = FALSE,
                    !.path_from = gs.waypoints])
  ELSE [gs EXCEPT !.return_start_index = -1]

\* plan_path: the states it can leave game_state in
plan_path(gs) ==
  IF Len(gs.waypoints) < 2 THEN {gs}
  ELSE { PlanWith(gs, out.value) :
           out \in find_optimal_path_through_waypoints(
                     gs.occ, gs.waypoints, ALLOW_DIAGONALS, gs.optimize_order, TRUE) }

\* the 'a' key of find_path mode with a path
StartDrone(gs) == [gs EXCEPT !.animating = TRUE, !.ai = 0]

\* handle_keyboard; save_map writes a file and leaves game_state alone
handle_keyboard(gs, key) ==
  IF gs.mode = "draw" /\ key = "K_s" THEN {gs}
  ELSE IF gs.mode = "find_path" THEN
    IF key = "K_SPACE" THEN plan_path(gs)
    ELSE IF key = "K_a" /\ Truthy(gs.path) THEN {StartDrone(gs)}
    ELSE {gs}
  ELSE {gs}

update_path_animation(gs) ==
  IF gs.path_animating /\ Truthy(gs.path)
  THEN IF gs.path_draw_index < Len(gs.path.path)
       THEN [gs EXCEPT !.path_draw_index = Min2(@ + PathDrawStep, Len(gs.path.path))]
       ELSE [gs EXCEPT !.path_animating = FALSE, !.animating = TRUE, !.ai = 0]
  ELSE gs

\* update_animation: what it does to game_state (the position it returns is
\* drawn and forgotten).  L is the distance to the next point of anim.
update_animation(gs) ==
  IF ~(gs.animating /\ Truthy(gs.anim)) THEN gs
  ELSE LET anim == gs.anim.path
       IN IF gs.ai < Len(anim) - 1
          THEN LET p0 == anim[gs.ai + 1]
                   p1 == anim[Min2(gs.ai + 1, Len(anim) - 1) + 1]
                   L == Abs(p1[1] - p0[1]) + Abs(p1[2] - p0[2])
               IN IF L = 0 THEN [gs EXCEPT !.ai = @ + 1]
                  ELSE IF ANIM_SPEED * AnimUnit >= L THEN [gs EXCEPT !.ai = @ + 1]
                  ELSE gs
          ELSE [gs EXCEPT !.animating = FALSE]

\* the callbacks of the five buttons
set_draw_mode(gs) == {[gs EXCEPT !.mode = "draw"]}
set_erase_mode(gs) == {[gs EXCEPT !.mode = "erase"]}
set_points_mode(gs) == {[gs EXCEPT !.mode = "set_points"]}
set_find_mode(gs) ==
  LET found == [gs EXCEPT !.mode = "find_path"]
  IN IF Len(found.waypoints) >= 2 THEN plan_path(found) ELSE {found}
replay_animation(gs) == {IF Truthy(gs.path) THEN start_path_animation(gs) ELSE gs}
toggle_optimize_order(gs, state) == [gs EXCEPT !.optimize_order = state]

Callback(i, gs) ==
  CASE i = 1 -> set_draw_mode(gs)
    [] i = 2 -> set_erase_mode(gs)
    [] i = 3 -> set_points_mode(gs)
    [] i = 4 -> set_find_mode(gs)
    [] i = 5 -> replay_animation(gs)

\* GameState as initialize_game leaves it, on the map base_occ
NewGame(base_occ) ==
  LET loaded ==
        [mode |-> "draw", base_occ |-> base_occ, occ |-> base_occ, waypoints |-> <<>>,
         path |-> None, return_start_index |-> -1, anim |-> None, ai |-> 0,
         animating |-> FALSE, path_draw_index |-> 0, path_animating |-> FALSE,
         optimize_order |-> TRUE, radius |-> DRONE_RADIUS_PIX, extra |-> DRONE_SAFETY_BUFFER,
         left_mouse_down |-> FALSE, right_mouse_down |-> FALSE, prev_mouse_pos |-> NoPos,
         path_from |-> <<>>]
  IN [loaded EXCEPT !.occ = Inflated(loaded)]

\* the widgets as initialize_game creates them
NewWidgets == [is_toggled |-> TRUE]

\* MOUSEBUTTONDOWN on the map or beside it (cell is then off the map): no
\* widget is under the pointer, so the event goes to handle_mouse_button_down
MouseButtonDown ==
  \E cell \in Cells(EditorH, EditorW) \cup {OffMap}, button \in MouseButtons :
    /\ (game_state.mode = "set_points" /\ cell # OffMap /\ button = 1) =>
         Len(game_state.waypoints) < EditorWaypoints
    /\ game_state' = handle_mouse_button_down(game_state, cell, button)
    /\ UNCHANGED <<occ, astarVars, planVars, utilVars, widgets>>

\* MOUSEBUTTONUP away from a pressed widget: every widget's is_pressed is
\* cleared and the event goes to handle_mouse_button_up
MouseButtonUp ==
  \E button \in MouseButtons :
    /\ game_state' = handle_mouse_button_up(game_state, button)
    /\ UNCHANGED <<occ, astarVars, planVars, utilVars, widgets>>

\* A click on button i: MOUSEBUTTONDOWN on it, which sets its is_pressed and
\* is off the map for handle_mouse_button_down, then MOUSEBUTTONUP on it,
\* which clears is_pressed, runs the callback and keeps the event from
\* handle_mouse_button_up.  is_pressed is read by nothing else, so the two
\* events are taken in one step.
ButtonClick ==
  \E i \in 1 .. Len(Buttons) :
    /\ game_state' \in Callback(i, game_state)
    /\ UNCHANGED <<occ, astarVars, planVars, utilVars, widgets>>

\* the same click on the toggle, reached when no button took the event
ToggleClick ==
  /\ widgets' = [widgets EXCEPT !.is_toggled = ~@]
  /\ game_state' = toggle_optimize_order(game_state, ~widgets.is_toggled)
  /\ UNCHANGED <<occ, astarVars, planVars, utilVars>>

\* MOUSEMOTION: no widget reacts
MouseMotion ==
  \E cell \in Cells(EditorH, EditorW) \cup {OffMap} :
    /\ game_state' = handle_mouse_motion(game_state, cell)
    /\ UNCHANGED <<occ, astarVars, planVars, utilVars, widgets>>

\* KEYDOWN
KeyDown ==
  \E key \in Keys :
    /\ game_state' \in handle_keyboard(game_state, key)
    /\ UNCHANGED <<occ, astarVars, planVars, utilVars, widgets>>

\* the end of one turn of the main loop, after the events
Frame ==
  /\ game_state' = update_animation(update_path_animation(game_state))
  /\ UNCHANGED <<occ, astarVars, planVars, utilVars, widgets>>

EditorInit ==
  /\ occ = [H |-> EditorH, W |-> EditorW, cells |-> {}]
  /\ waypoints = <<>>
  /\ planned = NotPlanned
  /\ AstarIdle
  /\ UtilIdle
  /\ game_state \in {NewGame(g) : g \in Grids(EditorH, EditorW, EditorObstacles)}
  /\ widgets = NewWidgets

EditorNext ==
  \/ MouseButtonDown
  \/ MouseButtonUp
  \/ ButtonClick
  \/ ToggleClick
  \/ MouseMotion
  \/ KeyDown
  \/ Frame

EditorSpec == EditorInit /\ [][EditorNext]_vars

\* =============================================================== claims ==
Done == pc \in {"done", "routed"}

Range(f) == {f[i] : i \in DOMAIN f}

\* the cell is inside the grid and not an obstacle
FreeCell(g, c) == c \in Cells(g.H, g.W) /\ c \notin g.cells

\* q is one move of the move set away from p
OneMove(p, q, d) ==
  LET dy == Abs(q[1] - p[1])
      dx == Abs(q[2] - p[2])
  IN IF d THEN Max2(dy, dx) = 1 ELSE dy + dx = 1

\* C7: a path astar returns begins at start, ends at goal, holds only free cells
\* inside the grid, and each of its steps is one move of the selected move set.
C7_AstarPathValid ==
  (Done /\ result.found) =>
    LET p == result.path
    IN /\ Len(p) >= 1
       /\ p[1] = start
       /\ p[Len(p)] = goal
       /\ \A i \in 1 .. Len(p) : FreeCell(occ, p[i])
       /\ \A i \in 1 .. Len(p) - 1 : OneMove(p[i], p[i + 1], diag)

\* astar returned a path of at least four cells that steps around an obstacle
C7_Witness ==
  /\ pc = "done"
  /\ result.found
  /\ Len(result.path) >= 4
  /\ ~line_free(occ, start, goal)

\* The least cost of a walk from cell src to every cell it can reach over free
\* cells with the move set, by relaxation to a fixed point: independent of the
\* search order, the heap and the heuristic of astar.
RECURSIVE Relax(_, _, _)
Relax(g, d, dist) ==
  LET into(c) == { CostAdd(dist[<<c[1] - m.dy, c[2] - m.dx>>], m.cost) :
                     m \in { k \in moves(d) : <<c[1] - k.dy, c[2] - k.dx>> \in DOMAIN dist } }
      known(c) == into(c) \cup (IF c \in DOMAIN dist THEN {dist[c]} ELSE {})
      reach == { c \in Cells(g.H, g.W) \ g.cells : known(c) # {} }
      next == [c \in reach |-> CHOOSE x \in known(c) : \A y \in known(c) : CostLeq(x, y)]
  IN IF next = dist THEN dist ELSE Relax(g, d, next)

LeastCosts(g, src, d) ==
  IF src \in g.cells THEN EmptyMap ELSE Relax(g, d, [c \in {src} |-> ZeroCost])

\* the cost of a path: 1 for each orthogonal step, sqrt(2) for each diagonal one
PathCost(p) == PathLength(p)

\* C8: the path astar returns costs no more than any walk from start to goal
\* over free cells with the same move set.
C8_AstarOptimal ==
  (pc = "done" /\ result.found) =>
    LET least == LeastCosts(occ, start, diag)
    IN goal \in DOMAIN least /\ CostCmp(PathCost(result.path), least[goal]) = 0

\* astar returned a detour with diagonal and orthogonal steps and left cells it
\* had discovered unexpanded
C8_Witness ==
  /\ pc = "done"
  /\ result.found
  /\ diag
  /\ ~line_free(occ, start, goal)
  /\ PathCost(result.path)[1] > 0
  /\ PathCost(result.path)[2] > 0
  /\ Cardinality(DOMAIN parent) < Cardinality(DOMAIN best_cost)

\* the cells some sequence of allowed moves through free cells reaches from S
RECURSIVE ReachableFrom(_, _, _)
ReachableFrom(g, d, S) ==
  LET next == { c \in Cells(g.H, g.W) \ g.cells :
                  c \in S \/ \E q \in S : OneMove(q, c, d) }
  IN IF next = S THEN S ELSE ReachableFrom(g, d, next)

Connected ==
  /\ start \notin occ.cells
  /\ goal \notin occ.cells
  /\ goal \in ReachableFrom(occ, diag, {start})

\* the return value of astar, once it has returned: None exactly when start or
\* goal is occupied or no walk connects them; with start or goal occupied no
\* cell was expanded, discovered or queued
C9_ReturnsNoneExactly ==
  /\ pc = "done" => (result = None <=> ~Connected)
  /\ (start \in occ.cells \/ goal \in occ.cells) =>
        /\ pc \in {"entry", "done", "routed"}
        /\ parent = EmptyMap /\ best_cost = EmptyMap /\ open_heap = {}

\* One iteration of the while loop that does not return either closes a free
\* cell that was open, or closes nothing and removes an entry from the heap: a
\* measure that cannot decrease for ever, over finitely many cells and entries.
C9_LoopProgress ==
  (pc = "loop" /\ pc' = "loop") =>
    \/ /\ DOMAIN parent \subseteq DOMAIN parent'
       /\ DOMAIN parent # DOMAIN parent'
       /\ DOMAIN parent' \subseteq Cells(occ.H, occ.W) \ occ.cells
    \/ /\ parent' = parent
       /\ open_heap' \subseteq open_heap
       /\ open_heap' # open_heap

\* Until astar has returned an iteration is possible: the heap is empty and the
\* loop ends, or an entry can be popped, which is stale, the goal, or expanded.
C9_IterationPossible ==
  (pc = "loop" /\ open_heap # {}) => PopChoices(open_heap) # {}

\* C9: astar always terminates (every iteration that does not return makes the
\* progress above, and an iteration is possible until astar has returned); it
\* returns None exactly when the start cell is occupied, the goal cell is
\* occupied, or no sequence of allowed moves through free cells connects start
\* to goal; with start or goal occupied it fails before any cell is expanded.
C9_AstarTerminates ==
  /\ [](C9_ReturnsNoneExactly /\ C9_IterationPossible)
  /\ [][C9_LoopProgress]_vars

\* astar expanded cells, exhausted the heap and returned None for a free start
\* and a free goal that no walk connects
C9_Witness ==
  /\ pc = "done"
  /\ result = None
  /\ start \notin occ.cells
  /\ goal \notin occ.cells
  /\ Cardinality(DOMAIN parent) >= 2

\* the obstacles are exactly column x but for the cell gap, a cell of column x
WallWithGap(g, x, gap) ==
  /\ gap \in Cells(g.H, g.W)
  /\ gap[2] = x
  /\ g.cells = { c \in Cells(g.H, g.W) : c[2] = x } \ {gap}

\* C10: the router returns the rasterized straight line from start to end, from
\* its first point start to its last point end, exactly when line_free holds,
\* and otherwise exactly what astar returns, None included; across a full-height
\* wall with a single gap cell between start and goal the returned path passes
\* through the gap.
C10_RouterDispatch ==
  pc = "routed" =>
    /\ line_free(occ, start, goal) =>
         /\ routed = Some(create_straight_line_path(start, goal))
         /\ routed.path[1] = start
         /\ routed.path[Len(routed.path)] = goal
    /\ ~line_free(occ, start, goal) => routed = astar(occ, start, goal, diag)
    /\ \A x \in 0 .. occ.W - 1 : \A gap \in Cells(occ.H, occ.W) :
         (WallWithGap(occ, x, gap) /\ start[2] < x /\ x < goal[2]) =>
           /\ routed.found
           /\ gap \in Range(routed.path)

\* ---------------------------------------------- claims on the path builder --
N == Len(waypoints)
Route(a, b) == find_optimal_path_between_points(occ, a, b, planned.allow_diagonals)

\* the k-th stop of the visiting order the call used
Stop(k) == waypoints[planned.path_order[k] + 1]

\* the 1-based position in the path of the k-th stop, the shared end points of
\* the legs counted once
RECURSIVE StopIndex(_)
StopIndex(k) ==
  IF k = 1 THEN 1
  ELSE StopIndex(k - 1) + Len(Route(Stop(k - 1), Stop(k)).path) - 1

\* C1: a path the builder returns for two or more waypoints holds only free
\* cells inside the grid, forward legs and return leg alike.  Stated for
\* waypoints that are themselves on free cells.
C1_PlanPathFree ==
  (/\ planned.called
   /\ N >= 2
   /\ \A i \in 1 .. N : FreeCell(occ, waypoints[i])
   /\ planned.value.ok) =>
    \A i \in 1 .. Len(planned.value.path) : FreeCell(occ, planned.value.path[i])

\* the closed tours the solver may return for the waypoints
Tours ==
  LET dm == calculate_distance_matrix(occ, waypoints, planned.allow_diagonals)
  IN IF N <= BruteForceLimit THEN solve_tsp_brute_force(dm.m)
     ELSE solve_tsp_nearest_neighbor(dm.m, 0)

\* C2: a path the builder returns for two or more waypoints starts at
\* waypoints[0]; the visiting order is 0, 1, ..., N-1 without optimize_order and
\* the solver's tour less its closing index with it; every stop is in the path,
\* in that order; between two consecutive stops the path is the router's leg,
\* the shared point appearing once; the return leg, if any, follows likewise.
C2_PathJoinsLegs ==
  (planned.called /\ N >= 2 /\ planned.value.ok) =>
    LET path == planned.value.path
        rsi == planned.value.return_start_index
    IN /\ path[1] = waypoints[1]
       /\ IF planned.optimize_order
          THEN \E t \in Tours : t.order = Append(planned.path_order, planned.path_order[1])
          ELSE planned.path_order = [k \in 1 .. N |-> k - 1]
       /\ \A k \in 1 .. N : path[StopIndex(k)] = Stop(k)
       /\ \A k \in 1 .. N - 1 :
            SubSeq(path, StopIndex(k), StopIndex(k + 1)) = Route(Stop(k), Stop(k + 1)).path
       /\ IF rsi = -1 THEN Len(path) = StopIndex(N)
          ELSE SubSeq(path, StopIndex(N), Len(path)) = Route(Stop(N), Stop(1)).path

\* the builder returned a path of three legs and a return leg for three
\* distinct waypoints, in the order the solver chose
C2_Witness ==
  /\ planned.called
  /\ planned.value.ok
  /\ N = 3
  /\ Cardinality(Range(waypoints)) = 3
  /\ planned.optimize_order
  /\ planned.value.return_start_index >= 3
  /\ Len(planned.value.path) > planned.value.return_start_index

\* a leg of the main tour is unreachable: some consecutive pair in insertion
\* order without optimize_order, any ordered pair of waypoints with it
MainLegUnreachable ==
  IF planned.optimize_order
  THEN \E i, j \in 1 .. N : i # j /\ ~Route(waypoints[i], waypoints[j]).found
  ELSE \E i \in 1 .. N - 1 : ~Route(waypoints[i], waypoints[i + 1]).found

\* C3: with two or more waypoints and an unreachable leg of the main tour the
\* builder returns None, and no partial path.
C3_UnreachableLegFails ==
  (planned.called /\ N >= 2 /\ MainLegUnreachable) => planned.value = PlanNone

\* optimize_order made the builder fail on a pair of waypoints that are not
\* neighbours in insertion order, every leg in insertion order being reachable
C3_Witness ==
  /\ planned.called
  /\ N = 3
  /\ planned.optimize_order
  /\ \A i \in 1 .. N - 1 : Route(waypoints[i], waypoints[i + 1]).found
  /\ MainLegUnreachable
  /\ planned.value = PlanNone

\* C4: with include_return, two or more waypoints, every leg of the main tour
\* reachable and the leg from the last stop back to the first unreachable, the
\* builder still returns a path: the one it returns without include_return,
\* nothing appended, with return_start_index -1.
C4_DegradedReturn ==
  (/\ planned.called
   /\ planned.include_return
   /\ N >= 2
   /\ ~MainLegUnreachable
   /\ ~Route(Stop(N), Stop(1)).found) =>
    /\ planned.value.ok
    /\ planned.value.return_start_index = -1
    /\ Len(planned.value.path) = StopIndex(N)
    /\ planned.value.path[Len(planned.value.path)] = Stop(N)
    /\ \E r \in find_optimal_path_through_waypoints(occ, waypoints, planned.allow_diagonals,
                                                    planned.optimize_order, FALSE) :
         r.path_order = planned.path_order /\ r.value = planned.value

\* the builder routed from the first waypoint to the second, found no way back
\* and returned the forward path alone
C4_Witness ==
  /\ planned.called
  /\ planned.include_return
  /\ N = 2
  /\ Route(waypoints[1], waypoints[2]).found
  /\ ~Route(waypoints[2], waypoints[1]).found
  /\ planned.value.ok
  /\ planned.value.return_start_index = -1
  /\ Len(planned.value.path) >= 2

\* C5: in every result (path, return_start_index) of the builder:
\* return_start_index is -1 without include_return; when it is not -1 it is the
\* index in path of the first point of the return segment, 0 <= index <
\* len(path), it counts the points of the forward legs with the shared end
\* points once, and the last point of path is the first stop; also when the
\* last stop is at the position of the first.
C5_ReturnStartIndex ==
  (planned.called /\ planned.value.ok) =>
    LET path == planned.value.path
        rsi == planned.value.return_start_index
    IN /\ ~planned.include_return => rsi = -1
       /\ rsi # -1 =>
            /\ 0 <= rsi
            /\ rsi < Len(path)
            /\ rsi = StopIndex(N)
            /\ path[Len(path)] = Stop(1)

\* C6 as the specification words it: called with no waypoint or one, the
\* builder returns the waypoint list itself with return_start_index -1, never
\* None.
C6_TrivialSuccess ==
  (planned.called /\ N <= 1) => planned.value = PlanTuple(waypoints, -1)

\* C6: called with one waypoint the builder returns the waypoint list itself
\* with return_start_index -1, whatever the grid holds at the waypoint and
\* whatever the flags; called with no waypoint it returns None.
C6_DegenerateInput ==
  (planned.called /\ N <= 1) =>
    planned.value = (IF N = 1 THEN PlanTuple(waypoints, -1) ELSE PlanNone)

\* the builder was called with an empty waypoint list
C6_Witness ==
  /\ planned.called
  /\ N = 0
  /\ planned.value = PlanNone

\* ---------------------------------------------- claims on the tour solvers --
Cities == Cardinality(DOMAIN matrix.m)

\* the sum of matrix[order[k]][order[k+1]] over an order
SumEdges(m, order) ==
  LET RECURSIVE upto(_)
      upto(k) == IF k = 0 THEN ZeroCost
                 ELSE CostAdd(upto(k - 1), m[order[k]][order[k + 1]])
  IN upto(Len(order) - 1)

\* the closed tours over n points: from 0 back to 0, every other index once
ClosedTours(n) ==
  { t \in [1 .. n + 1 -> 0 .. n - 1] :
      /\ t[1] = 0
      /\ t[n + 1] = 0
      /\ \A k \in 1 .. n - 1 : Cardinality({i \in 2 .. n : t[i] = k}) = 1 }

\* C11: for a matrix of 3 or more points solve_tsp_brute_force returns an order
\* and a cost, the cost being the sum of the matrix entries along the order,
\* closing edge included, and the least such sum over all closed tours from 0.
C11_BruteForceMinimal ==
  (tour.called /\ tour.solver = "brute_force" /\ Cities >= 3) =>
    /\ tour.total = SumEdges(matrix.m, tour.order)
    /\ \A t \in ClosedTours(Cities) : CostLeq(tour.total, SumEdges(matrix.m, t))

\* brute force chose, for four points, a tour other than 0,1,2,3,0 that costs
\* less than that one
C11_Witness ==
  /\ tour.called
  /\ tour.solver = "brute_force"
  /\ Cities = 4
  /\ CostLess(tour.total, SumEdges(matrix.m, <<0, 1, 2, 3, 0>>))
  /\ tour.total[1] > 0
  /\ tour.total[2] > 0

\* C12: for two or more points the order either solver returns (nearest
\* neighbour started at 0) is a closed tour: N + 1 entries, 0 first and last,
\* every index 1 .. N-1 once in between; for two points it is 0, 1, 0.
C12_ClosedTour ==
  (tour.called /\ Cities >= 2 /\ tour.start_idx = 0) =>
    /\ Len(tour.order) = Cities + 1
    /\ tour.order[1] = 0
    /\ tour.order[Cities + 1] = 0
    /\ \A k \in 1 .. Cities - 1 :
         Cardinality({i \in 2 .. Cities : tour.order[i] = k}) = 1
    /\ Cities = 2 => tour.order = <<0, 1, 0>>

\* nearest neighbour from 0 returned a tour of four points
C12_Witness ==
  /\ tour.called
  /\ tour.solver = "nearest_neighbor"
  /\ tour.start_idx = 0
  /\ Cities = 4
  /\ tour.order # <<0, 1, 2, 3, 0>>

\* the indices not visited before position k of the order
Unvisited(k) == (0 .. Cities - 1) \ {tour.order[i] : i \in 1 .. k - 1}

\* C13: nearest neighbour starts at the start index; each next index is an
\* unvisited one at the least matrix distance from the current index, the
\* first such index when the least distance is one float (no sqrt(2) part);
\* the start index closes the order, and the total is the sum of the matrix
\* entries along the order, closing edge included.
C13_NearestNeighborGreedy ==
  (tour.called /\ tour.solver = "nearest_neighbor") =>
    /\ Len(tour.order) = Cities + 1
    /\ tour.order[1] = tour.start_idx
    /\ tour.order[Cities + 1] = tour.start_idx
    /\ \A k \in 2 .. Cities :
         LET current == tour.order[k - 1]
             next == tour.order[k]
         IN /\ next \in Unvisited(k)
            /\ \A q \in Unvisited(k) : CostLeq(matrix.m[current][next], matrix.m[current][q])
            /\ ~Inexact(matrix.m[current][next]) =>
                 \A q \in Unvisited(k) :
                   matrix.m[current][q] = matrix.m[current][next] => next <= q
    /\ tour.total = SumEdges(matrix.m, tour.order)

\* nearest neighbour, not started at 0, broke a tie of equal distances by
\* taking the first index and returned a tour dearer than the least one
C13_Witness ==
  /\ tour.called
  /\ tour.solver = "nearest_neighbor"
  /\ tour.start_idx = 2
  /\ Cities = 4
  /\ matrix.m[2][0] = <<1, 0>>
  /\ matrix.m[2][1] = <<1, 0>>
  /\ tour.order[2] = 0
  /\ \E t \in ClosedTours(Cities) : CostLess(SumEdges(matrix.m, t), tour.total)

\* ------------------------------------------------------ claims on inflate --
TotalRadius(call) == call.base_radius + call.extra_radius

\* C14: inflate keeps every obstacle of its input, leaves the input grid as
\* it was, and is monotonic in the total radius (zero and negative totals
\* included): of two calls on the same grid, the one with the smaller or
\* equal total radius gives a subset of the obstacles of the other.
C14_InflateMonotonic ==
  [][ inflated'.called =>
        /\ occ' = occ
        /\ occ.cells \subseteq inflated'.cells
        /\ inflated'.cells \subseteq Cells(occ.H, occ.W)
        /\ (inflated.called /\ TotalRadius(inflated) <= TotalRadius(inflated')) =>
             inflated.cells \subseteq inflated'.cells
        /\ (inflated.called /\ TotalRadius(inflated') <= TotalRadius(inflated)) =>
             inflated'.cells \subseteq inflated.cells ]_vars

\* a call with a negative total radius on a grid with obstacles returned the
\* obstacles of the grid
C14_Witness ==
  /\ inflated.called
  /\ TotalRadius(inflated) < -2
  /\ occ.cells # {}
  /\ inflated.cells = occ.cells

\* a call with a positive total radius added obstacles and left cells free
C14_Grown ==
  /\ inflated.called
  /\ TotalRadius(inflated) = 3
  /\ Cardinality(inflated.cells) > Cardinality(occ.cells)
  /\ inflated.cells # Cells(occ.H, occ.W)

\* ---------------------------------------------------- claims on line_free --
\* the cells the claimed sampling visits: max(2, ceil(2*distance)) evenly
\* spaced values from p to q, both included, each rounded to a cell
ClaimedSamples(p, q) ==
  LET s == SampleCells(p, q) IN {s[i] : i \in 1 .. Len(s)}

\* C15: line_free(grid, p0, p1) is true exactly when every sampled cell is an
\* in-bounds free cell, the samples including both end points; so a true
\* result means that p0 and p1 are in-bounds free cells, also when p0 = p1.
C15_LineFreeSamples ==
  sight.calls >= 1 =>
    /\ sight.there <=> \A c \in ClaimedSamples(sight.p, sight.q) : is_point_free(occ, c[1], c[2])
    /\ sight.there => /\ is_point_free(occ, sight.p[1], sight.p[2])
                      /\ is_point_free(occ, sight.q[1], sight.q[2])

\* the same for two different end points only
C15_DistinctEndpoints ==
  (sight.calls >= 1 /\ sight.p # sight.q) =>
    /\ sight.there <=> \A c \in ClaimedSamples(sight.p, sight.q) : is_point_free(occ, c[1], c[2])
    /\ sight.there => /\ is_point_free(occ, sight.p[1], sight.p[2])
                      /\ is_point_free(occ, sight.q[1], sight.q[2])

\* C16: line_free gives the same answer with its end points exchanged.
C16_LineFreeSymmetric ==
  sight.calls = 2 => sight.there = sight.back

\* ------------------------------------------- claims on the distance matrix --
\* the router finds no path from waypoint i to waypoint j (1-based), i # j
PairUnreachable(i, j) ==
  ~find_optimal_path_between_points(occ, waypoints[i], waypoints[j], matrix.allow_diagonals).found

\* the matrix is returned exactly when no ordered pair is unreachable; it is
\* N x N with a zero diagonal and no negative entry
C17_MatrixShape ==
  matrix.called =>
    /\ matrix.found <=> ~\E i, j \in 1 .. N : i # j /\ PairUnreachable(i, j)
    /\ matrix.found =>
         /\ DOMAIN matrix.m = 0 .. N - 1
         /\ \A i \in 0 .. N - 1 :
              /\ DOMAIN matrix.m[i] = 0 .. N - 1
              /\ matrix.m[i][i] = ZeroCost
              /\ \A j \in 0 .. N - 1 : CostLeq(ZeroCost, matrix.m[i][j])

\* C17: calculate_distance_matrix returns None when an ordered pair of
\* waypoints is unreachable, and otherwise an N x N matrix with a zero
\* diagonal, no negative entry, and matrix[i][j] = matrix[j][i] for all i, j.
C17_MatrixSymmetric ==
  /\ C17_MatrixShape
  /\ (matrix.called /\ matrix.found) =>
       \A i, j \in 0 .. N - 1 : matrix.m[i][j] = matrix.m[j][i]

\* ------------------------------------------- claims on occupied waypoints --
\* C18: a call with two or more waypoints, one of them on an obstacle cell of
\* the grid, returns None, whatever optimize_order and include_return are and
\* also when the occupied position is in the list more than once.
C18_OccupiedWaypointFails ==
  (/\ planned.called
   /\ N >= 2
   /\ \E i \in 1 .. N : waypoints[i] \in occ.cells) => planned.value = PlanNone

\* the same for lists that hold two different positions at least
C18_DistinctPositions ==
  (/\ planned.called
   /\ N >= 2
   /\ \E i \in 1 .. N : waypoints[i] \in occ.cells
   /\ \E i, j \in 1 .. N : waypoints[i] # waypoints[j]) => planned.value = PlanNone

\* ----------------------------------------------------- claims on shortcut --
\* the consecutive pairs of points of a path
Pairs(path) == { <<path[i], path[i + 1]>> : i \in 1 .. Len(path) - 1 }

ShortcutSteps ==
  [][ smooth_pc = "loop" => Len(shortcut_points') <= Len(shortcut_points) ]_vars

\* C19: on a path the router or astar produced, for every budget and every
\* draw of the indices, no iteration of shortcut makes the points more, every
\* consecutive pair of points of the output passes line_free, and a path of
\* two points or fewer is returned as it is.
C19_OutputPairsFree ==
  /\ ShortcutSteps
  /\ [](smooth_pc = "done" =>
          /\ \A pq \in Pairs(shortcut_points) : line_free(occ, pq[1], pq[2])
          /\ Len(given_path) <= 2 => shortcut_points = given_path)

\* C19, as the code has it: no iteration makes the points more, every
\* consecutive pair of points of the output is a consecutive pair of the
\* input path or passes line_free, the end points stay, and a path of two
\* points or fewer is returned as it is.
C19_NoNewCollision ==
  /\ ShortcutSteps
  /\ [](smooth_pc \in {"loop", "done"} =>
          /\ \A pq \in Pairs(shortcut_points) :
               pq \in Pairs(given_path) \/ line_free(occ, pq[1], pq[2])
          /\ shortcut_points[1] = given_path[1]
          /\ shortcut_points[Len(shortcut_points)] = given_path[Len(given_path)]
          /\ Len(given_path) <= 2 => shortcut_points = given_path)

\* shortcut returned fewer points than it was given, with a pair of
\* consecutive points that the input did not have, and with a pair kept from
\* the input that does not pass line_free
C19_Witness ==
  /\ smooth_pc = "done"
  /\ Len(shortcut_points) < Len(given_path)
  /\ Pairs(shortcut_points) \ Pairs(given_path) # {}
  /\ \E pq \in Pairs(shortcut_points) : ~line_free(occ, pq[1], pq[2])

\* ----------------------------------------------------- claims on resample --
\* C20: on a path of two points or more the output of resample starts with
\* the first and ends with the last input point, and every two consecutive
\* output points are step apart along the path, inside a segment and across
\* the end of one, except possibly the last two.  (Paths along one row that
\* never turn back: the distance along the path is the difference of x.)
C20_UniformSpacing ==
  (resampled.called /\ Len(given_path) >= 2) =>
    LET out == resampled.out
    IN /\ out[1] = given_path[1]
       /\ out[Len(out)] = given_path[Len(given_path)]
       /\ \A i \in 1 .. Len(out) - 2 : out[i + 1][2] - out[i][2] = step

\* what does hold: the end points are kept, the output never turns back,
\* and no two consecutive output points are more than step apart
C20_EndPointsKept ==
  (resampled.called /\ Len(given_path) >= 2) =>
    LET out == resampled.out
    IN /\ out[1] = given_path[1]
       /\ out[Len(out)] = given_path[Len(given_path)]
       /\ \A i \in 1 .. Len(out) - 1 :
            /\ out[i][2] <= out[i + 1][2]
            /\ out[i + 1][2] - out[i][2] <= step

\* ------------------------------------------------ claims on the path's steps --
\* the steps of the returned path: the pairs of consecutive points
PlanSteps == Pairs(planned.value.path)

\* C21: the path a successful call returns is continuous: every two
\* consecutive points, the ones on both sides of a join of two legs and of
\* the join to the return leg included, are two different cells that differ
\* by at most 1 in each coordinate; repeated waypoints included.
C21_PathContinuous ==
  (planned.called /\ N >= 2 /\ planned.value.ok) =>
    \A pq \in PlanSteps :
      /\ pq[1] # pq[2]
      /\ Abs(pq[1][1] - pq[2][1]) <= 1
      /\ Abs(pq[1][2] - pq[2][2]) <= 1

\* a call with a repeated waypoint and a return leg gave a path of more than
\* three points whose stops are further than one cell apart
C21_Witness ==
  /\ planned.called
  /\ N = 3
  /\ planned.value.ok
  /\ planned.include_return
  /\ planned.value.return_start_index > 0
  /\ waypoints[2] = waypoints[3]
  /\ Abs(waypoints[1][2] - waypoints[2][2]) = 2
  /\ Len(planned.value.path) > 3

\* C24: without allow_diagonals every two consecutive points of the returned
\* path are one orthogonal unit move apart, whether the leg is a straight
\* line or an astar path.
C24_OrthogonalOnly ==
  (planned.called /\ planned.value.ok /\ ~planned.allow_diagonals) =>
    \A pq \in PlanSteps : Abs(pq[1][1] - pq[2][1]) + Abs(pq[1][2] - pq[2][2]) = 1

\* the same for the legs astar built: the legs whose straight line is not free
C24_AstarLegsOrthogonal ==
  (planned.called /\ planned.value.ok /\ ~planned.allow_diagonals /\ N >= 2) =>
    \A k \in 1 .. Len(planned.path_order) - 1 :
      ~line_free(occ, Stop(k), Stop(k + 1)) =>
        \A pq \in Pairs(Route(Stop(k), Stop(k + 1)).path) :
          Abs(pq[1][1] - pq[2][1]) + Abs(pq[1][2] - pq[2][2]) = 1

\* -------------------------------------------- claims on the return leg --
\* C25: a call with two or more waypoints and include_return that returns a
\* path returns it with its return leg: return_start_index is not -1.
C25_ReturnAlwaysRouted ==
  (planned.called /\ N >= 2 /\ planned.include_return /\ planned.value.ok) =>
    planned.value.return_start_index # -1

\* the same for calls with optimize_order, where the distance matrix has
\* routed every ordered pair before the path is built
C25_OptimizedReturnRouted ==
  (/\ planned.called
   /\ N >= 2
   /\ planned.include_return
   /\ planned.optimize_order
   /\ planned.value.ok) => planned.value.return_start_index # -1

\* ------------------------------------------ claims on the visiting order --
\* the paths the call without optimize_order returns on the same grid and
\* waypoints, with the same other flags
UnoptimizedPaths ==
  { out.value.path :
      out \in { o \in find_optimal_path_through_waypoints(
                        occ, waypoints, planned.allow_diagonals, FALSE,
                        planned.include_return) : o.value.ok } }

\* C26: for 2 to 8 waypoints, when the calls with and without optimize_order
\* both succeed, the path with optimize_order is no longer than the path
\* without it (sum of the distances between consecutive points), with
\* include_return and without it.  Stated for the calls in which one closed
\* tour is strictly the least, so that the rounding of the float sums has no
\* part in the order.
C26_OptimizedNotLonger ==
  (/\ planned.called
   /\ planned.optimize_order
   /\ N >= 2
   /\ N <= BruteForceLimit
   /\ planned.value.ok
   /\ Cardinality(Tours) = 1) =>
    \A path \in UnoptimizedPaths :
      CostLeq(PathLength(planned.value.path), PathLength(path))

\* the same for the calls with include_return only
C26_ClosedTourNotLonger ==
  (/\ planned.called
   /\ planned.optimize_order
   /\ planned.include_return
   /\ N >= 2
   /\ N <= BruteForceLimit
   /\ planned.value.ok) =>
    \A path \in UnoptimizedPaths :
      CostLeq(PathLength(planned.value.path), PathLength(path))

\* ---------------------------------------------------------------- editor --
\* C22: after every handled event of the editor (mouse button down in any
\* mode, mouse motion, mouse button up, key press, the clicks on the widgets
\* and the frame updates between them), in any order, the planning grid is
\* the inflation of the base grid as it is now:
\* game_state.occ = inflate(game_state.base_occ, radius, extra).
C22_OccIsInflation ==
  game_state.occ =
    inflate(game_state.base_occ, 2 * DRONE_RADIUS_PIX, 2 * DRONE_SAFETY_BUFFER)

\* a drag in draw mode has filled a map that was loaded with free cells
C22_Witness ==
  /\ game_state.mode = "draw"
  /\ game_state.left_mouse_down
  /\ game_state.prev_mouse_pos = <<0, EditorW - 1>>
  /\ game_state.base_occ.cells = Cells(EditorH, EditorW)
  /\ game_state.occ.cells = Cells(EditorH, EditorW)

\* erasing has emptied the base grid and the planning grid with it
C22_Erased ==
  /\ game_state.mode = "erase"
  /\ game_state.right_mouse_down
  /\ game_state.waypoints # <<>>
  /\ game_state.base_occ.cells = {}
  /\ game_state.occ.cells = {}

\* the path and the animation state as a change of the waypoints leaves them
Discarded(gs) ==
  /\ gs.path = None
  /\ gs.anim = None
  /\ ~gs.animating
  /\ ~gs.path_animating
  /\ gs.ai = 0
  /\ gs.path_draw_index = 0

\* a path that is not None was built by plan_path from the waypoint list as
\* it is now
PathOfCurrentWaypoints ==
  game_state.path # None => game_state.path_from = game_state.waypoints

\* a left click in set_points mode on an occupied cell of the inflated grid
\* changes nothing: no waypoint is added, waypoints and path stay
OccupiedClickIgnored ==
  game_state.mode = "set_points" =>
    \A cell \in game_state.occ.cells :
      handle_mouse_button_down(game_state, cell, 1) = game_state

C23_Discarded ==
  /\ game_state.path = None
  /\ Len(game_state.path_from) = 2
  /\ Len(game_state.waypoints) = 1

\* C27: in the editor the animation of the drone and the drawing of the path
\* are never both active: in no state reached by Find Path, Replay, SPACE,
\* 'a' and frame updates are path_animating and animating both true (the
\* drone starts only once path_draw_index has reached len(path)).
C27_NeverBothAnimations ==
  ~(game_state.path_animating /\ game_state.animating)

\* what holds: the frame update starts the drone only when the path is drawn
C27_FrameStartsDroneAfterDrawing ==
  [][(Frame /\ ~game_state.animating /\ game_state'.animating) =>
       game_state.path_draw_index = Len(game_state.path.path)]_vars


=============================================================================
